---- MODULE Spec2Model ----
(***************************************************************************)
(* A model of suitcase.nano_pybridge: the Serializer that routes a stream  *)
(* of documents (start, descriptor, event_page, stop) into an HDF5 tree    *)
(* and, at stop, stitches per-channel virtual datasets from the stream     *)
(* groups by replaying the recorded visit order (_stream_counter).         *)
(*                                                                         *)
(* Abstractions.  An HDF5 dataset is the sequence of its rows; an absent   *)
(* dataset is the empty sequence (the code never creates an empty one).    *)
(* The payload of a row is never inspected by the code, so every row       *)
(* carries its own absolute timestamp as payload: a row is identified by   *)
(* its value.  The shape of a batch's array for one key is one of          *)
(*   "ok"     (n, ...) with positive trailing dimensions,                  *)
(*   "trail0" (n, 0): n rows, each an empty array,                         *)
(*   "lead0"  (0, 3): no row at all.                                       *)
(* A virtual layout is a sequence of slots, each <<uid, i>> (row i of the  *)
(* dataset in the group of stream uid) or Unmapped.                        *)
(*                                                                         *)
(* What h5py does is taken from its behaviour: create_group and a second   *)
(* link of one name raise ValueError, a write whose shape cannot be        *)
(* broadcast to the selection raises TypeError, a missing key raises       *)
(* KeyError, and a virtual mapping between selections of different sizes   *)
(* is refused.  A handler that raises ends the run (export closes the      *)
(* files and re-raises).  Structured values (namedtuples, variable         *)
(* signals) and fit results are outside this model; of the NeXus           *)
(* projection the model keeps that it ran and the name of its node.  Of    *)
(* a container the model keeps the names of its top-level nodes.           *)
(*                                                                         *)
(* The FileManager works on paths as Python does: a path is the sequence   *)
(* of its characters, held as a pathlib.Path or as a str.                  *)
(***************************************************************************)
EXTENDS Integers, Sequences, FiniteSets, TLC

\* ---------------------------------------------------------------- bounds
\* descriptors and event pages delivered in one run
MaxDocs == 5

\* ---------------------------------------------------------------- inputs
\* Stream identifiers are opaque strings, fresh per descriptor: the k-th
\* descriptor of a run carries the identifier Uid(k).
Uid(k) == ToString(k)
RowCounts == {1, 2}
Channels == {"temp", "volt"}
LiveName == "_live_metadata_reading_"
FitsName == "x_fits_readying_y"
StreamNames == {"primary", "aux", LiveName, FitsName}
StartTimes == {100}
KeyOrder == <<"temp", "volt">>
LinkChoices == {{"temp"}, {"temp", "volt"}}
DataKeyChoices == {{"temp"}, {"temp", "volt"}}
LiveFields == {"note"}
ShapeKinds == {"ok", "trail0", "lead0"}

DataEntry == "data"
GroupIds == {DataEntry, "aux"}
NoStream == "None"
NoError == "none"
Unmapped == <<>>

\* The row h5py leaves in a dataset that was resized but not written.
FillRow == 0

VARIABLES
  phase,                \* "new", "active", "stopped", "failed"
  err,                  \* the exception that ended the run, or NoError
  start_time,           \* Serializer._start_time
  channel_links,        \* keys of Serializer._channel_links
  stream_groups,        \* Serializer._stream_groups: uid -> group or LiveName
  stream_names,         \* Serializer._stream_names: name -> uid
  stream_metadata,      \* Serializer._stream_metadata: uid -> data keys
  stream_counter,       \* Serializer._stream_counter: <<uid, count>> entries
  current_stream,       \* Serializer._current_stream
  channels_in_streams,  \* Serializer._channels_in_streams, in insertion order
  groups,               \* the stream groups that exist in the file
  time,                 \* group -> its "time" dataset
  elapsed,              \* group -> its "ElapsedTime" dataset
  data,                 \* group -> channel -> its dataset
  meas_fields,          \* fields written under measurement_details by live batches
  value_log,            \* channel -> the virtual layout "value_log", or Unmapped
  timestamps,           \* channel -> the virtual layout "timestamps", or Unmapped
  stitched,             \* channels whose virtual datasets were created at stop
  now,                  \* the clock the batches' timestamps are drawn from
  ndocs,                \* descriptors and event pages delivered so far
  ndescriptors,         \* descriptors delivered so far
  rows_routed,          \* history: rows carried by batches routed to a stream group
  skipped,              \* history: <<group, channel>> of writes skipped for bad shape
  writers,              \* history: <<uid, channel>> of the streams that wrote rows
  last,                 \* history: the last document handled and what it carried
  ap_rows,              \* append experiment: the rows to append
  ap_trail,             \* append experiment: the rows have positive trailing dimensions
  ap_init,              \* append experiment: the dataset before the appends
  ap_one,               \* append experiment: the dataset fed one row per call
  ap_fed,               \* append experiment: rows fed to ap_one so far
  ap_one_err,           \* append experiment: the exception a one-row call raised
  ap_bulk,              \* append experiment: the dataset fed all rows in one call
  ap_bulk_done          \* append experiment: the one call was made

VARIABLES
  fm_new_file_each,     \* FileManager._new_file_each
  fm_reserved,          \* FileManager._reserved_names
  fm_artifacts,         \* FileManager._artifacts: label -> list of paths
  fm_files,             \* FileManager._files: path -> handle
  fm_handles,           \* every h5py.File that open created: "open" or "closed"
  fm_storage,           \* the absolute paths that are files on storage
  fm_log,               \* history: label and path of every reserve that returned
  fm_last,              \* history: the last call on the FileManager
  fm_calls,             \* history: calls made in the allocator experiment
  plot_data,            \* Serializer._plot_data
  do_nexus_output,      \* Serializer.do_nexus_output
  group_attrs,          \* group -> the axes and signals written at stop
  nexus_made,           \* the NeXus_ node was created at stop
  stop_trace,           \* history: the steps the stop handler ran, in order
  exited                \* the with-block of export was left

VARIABLES
  mp_metadata,          \* mapper experiment: the metadata handed to recourse_entry_dict
  mp_entry,             \* mapper experiment: the node it fills
  mp_err,               \* mapper experiment: the exception it raised
  mp_done               \* mapper experiment: the call was made

VARIABLES
  start_doc,            \* the start document: session_name, user and sample records
  h5_tree,              \* path of a container -> the names of its top-level nodes
  h5_output_file,       \* Serializer._h5_output_file: the path of the open container
  run_entry_name,       \* Serializer._entry_name
  entry,                \* Serializer._entry: the user and sample nodes start made
  runs                  \* history: the Serializers constructed on the directory

\* the state of the Serializer and of the file
svars == <<phase, err, start_time, channel_links, stream_groups, stream_names,
          stream_metadata, stream_counter, current_stream, channels_in_streams,
          groups, time, elapsed, data, meas_fields, value_log, timestamps,
          stitched, now, ndocs, ndescriptors, rows_routed, skipped, writers,
          last>>

\* the state of the append experiment
apvars == <<ap_rows, ap_trail, ap_init, ap_one, ap_fed, ap_one_err, ap_bulk,
            ap_bulk_done>>

\* the state of the FileManager
fmvars == <<fm_new_file_each, fm_reserved, fm_artifacts, fm_files, fm_handles,
            fm_storage, fm_log, fm_last, fm_calls>>

\* the options of the Serializer, what stop adds to the file, the with-block
xvars == <<plot_data, do_nexus_output, group_attrs, nexus_made, stop_trace, exited>>

\* the state of the mapper experiment
mvars == <<mp_metadata, mp_entry, mp_err, mp_done>>

\* the start document, the containers on storage, the entry of the run
hvars == <<start_doc, h5_tree, h5_output_file, run_entry_name, entry, runs>>

vars == <<svars, apvars, fmvars, xvars, mvars, hvars>>

\* ---------------------------------------------------------------- helpers
Range(s) == {s[i] : i \in 1..Len(s)}

RECURSIVE SumSeq(_)
SumSeq(s) == IF s = <<>> THEN 0 ELSE Head(s) + SumSeq(Tail(s))

Min(a, b) == IF a < b THEN a ELSE b

Repeat(x, n) == [i \in 1..n |-> x]

\* dict.get with a default
GetOr(dict, key, default) == IF key \in DOMAIN dict THEN dict[key] ELSE default

\* dict lookup in the insertion-ordered _channels_in_streams
CisKeys == {channels_in_streams[i].ch : i \in 1..Len(channels_in_streams)}
CisHas(cis, ch) == \E i \in 1..Len(cis) : cis[i].ch = ch
CisGet(cis, ch) == (CHOOSE i \in 1..Len(cis) : cis[i].ch = ch)

\* ---------------------------------------------------------------- Init
\* The Serializer after __init__.
SerializerInit ==
  /\ phase = "new"
  /\ err = NoError
  /\ start_time = 0
  /\ channel_links = {}
  /\ stream_groups = <<>>
  /\ stream_names = <<>>
  /\ stream_metadata = <<>>
  /\ stream_counter = <<>>
  /\ current_stream = NoStream
  /\ channels_in_streams = <<>>
  /\ groups = {}
  /\ time = [g \in GroupIds |-> <<>>]
  /\ elapsed = [g \in GroupIds |-> <<>>]
  /\ data = [g \in GroupIds |-> [c \in Channels |-> <<>>]]
  /\ meas_fields = {}
  /\ value_log = [c \in Channels |-> Unmapped]
  /\ timestamps = [c \in Channels |-> Unmapped]
  /\ stitched = {}
  /\ now = 0
  /\ ndocs = 0
  /\ ndescriptors = 0
  /\ rows_routed = 0
  /\ skipped = {}
  /\ writers = {}
  /\ last = [doc |-> "none", outcome |-> "none", prev |-> "none", name |-> "",
             uid |-> NoStream, badkey |-> "", badkind |-> "ok", wasnew |-> FALSE,
             first |-> 0, rows |-> 0]

NoAppend ==
  /\ ap_rows = <<>>
  /\ ap_trail = TRUE
  /\ ap_init = <<>>
  /\ ap_one = <<>>
  /\ ap_fed = 0
  /\ ap_one_err = NoError
  /\ ap_bulk = <<>>
  /\ ap_bulk_done = FALSE

\* ---------------------------------------------------------------- strings
\* A string is the sequence of its characters.
Ext == <<".", "n", "x", "s">>

\* the output directory, resolved
Directory == <<"/", "d", "/">>

\* str.endswith, str.startswith
EndsWith(s, suffix) ==
  Len(s) >= Len(suffix) /\ SubSeq(s, Len(s) - Len(suffix) + 1, Len(s)) = suffix
StartsWith(s, prefix) ==
  Len(s) >= Len(prefix) /\ SubSeq(s, 1, Len(prefix)) = prefix

\* str.replace: every occurrence of old, left to right, without overlap
RECURSIVE StrReplace(_, _, _)
StrReplace(s, old, new) ==
  IF Len(s) < Len(old) THEN s
  ELSE IF StartsWith(s, old)
       THEN new \o StrReplace(SubSeq(s, Len(old) + 1, Len(s)), old, new)
       ELSE <<Head(s)>> \o StrReplace(Tail(s), old, new)

\* str.rfind of one character, 0 when absent
LastIndexOf(s, c) ==
  IF \E i \in 1..Len(s) : s[i] = c
  THEN CHOOSE i \in 1..Len(s) : s[i] = c /\ \A j \in (i + 1)..Len(s) : s[j] # c
  ELSE 0

\* os.path.splitext(p)[0]: the extension starts at the last dot of the last
\* component, unless only dots precede it there
SplitextRoot(p) ==
  LET sep == LastIndexOf(p, "/")
      dot == LastIndexOf(p, ".")
  IN IF dot > sep /\ \E j \in (sep + 1)..(dot - 1) : p[j] # "."
     THEN SubSeq(p, 1, dot - 1)
     ELSE p

\* the decimal digits of a natural number
RECURSIVE Digits(_)
Digits(i) == IF i < 10 THEN <<ToString(i)>> ELSE Digits(i \div 10) \o <<ToString(i % 10)>>

\* f"_{i}.nxs"
NumberedExt(i) == <<"_">> \o Digits(i) \o Ext

\* what clean_filename makes of one character
CleanChar(c) ==
  CASE c \in {" ", ".", "?", "*"} -> <<"_">>
    [] c \in {":", "/", "\\", "|"} -> <<"-">>
    [] c = "<" -> <<"_", "s", "m", "a", "l", "l", "e", "r", "_">>
    [] c = ">" -> <<"_", "g", "r", "e", "a", "t", "e", "r", "_">>
    [] c = "\"" -> <<"_", "q", "u", "o", "t", "e", "_">>
    [] OTHER -> <<c>>

\* clean_filename: no replacement produces a character that a later one
\* replaces, so the chain of replace calls acts on each character by itself
RECURSIVE clean_filename(_)
clean_filename(filename) ==
  IF filename = <<>> THEN <<>>
  ELSE CleanChar(Head(filename)) \o clean_filename(Tail(filename))

\* ---------------------------------------------------------------- metadata
\* A metadata value is None, a number, a string, a list of values or a dict
\* (its items in insertion order, each <<key, value>>).
NoValue == [t |-> "none", s |-> "", items |-> <<>>, fields |-> <<>>]
Number(s) == [t |-> "num", s |-> s, items |-> <<>>, fields |-> <<>>]
Text(s) == [t |-> "str", s |-> s, items |-> <<>>, fields |-> <<>>]
List(items) == [t |-> "list", s |-> "", items |-> items, fields |-> <<>>]
Dict(fields) == [t |-> "dict", s |-> "", items |-> <<>>, fields |-> fields]

\* dict access: "key in d", d[key], d.pop(key)
HasKey(d, key) == \E i \in 1..Len(d.fields) : d.fields[i][1] = key
ValueOf(d, key) == d.fields[CHOOSE i \in 1..Len(d.fields) : d.fields[i][1] = key][2]
Pop(d, key) == Dict(SelectSeq(d.fields, LAMBDA f : f[1] # key))

\* An HDF5 group is its attributes and its members by name; a member is a
\* group or a dataset holding a value.
EmptyNode == [attrs |-> <<>>, members |-> <<>>]
Group(node) == [kind |-> "group", node |-> node, value |-> NoValue]
Dataset(value) == [kind |-> "dataset", node |-> EmptyNode, value |-> value]

\* what h5py stores for a list (lines 188-194): a fixed-width byte array when
\* an element is a string, the list itself when numpy gives it a native
\* type, else (TypeError) its string representation
ArrayLeaf(val) ==
  IF \E i \in 1..Len(val.items) : val.items[i].t = "str"
  THEN [t |-> "bytes", s |-> "", items |-> val.items, fields |-> <<>>]
  ELSE IF \E i \in 1..Len(val.items) : val.items[i].t \in {"dict", "none", "list"}
  THEN [t |-> "repr", s |-> "", items |-> val.items, fields |-> <<>>]
  ELSE val

\* entry.create_group(name) and entry[name] = value on st = [node, err]:
\* h5py refuses a name that exists in the group
CreateMember(st, name, member) ==
  IF name \in DOMAIN st.node.members
  THEN [st EXCEPT !.err = "ValueError"]
  ELSE [st EXCEPT !.node.members = (name :> member) @@ @]

\* f"{key}_{i}"
IndexedName(key, i) == key \o "_" \o ToString(i)

RECURSIVE recourse_entry_dict(_, _)
RECURSIVE MapItems(_, _, _, _)
RECURSIVE MapFields(_, _, _)

\* recourse_entry_dict(entry, metadata) on st = [node, err]; the result is
\* the node as the call leaves it and the exception it raised
recourse_entry_dict(st, metadata) ==
  IF metadata.t # "dict"
  THEN [st EXCEPT !.node.attrs = ("value" :> metadata) @@ @]
  ELSE MapFields(st, metadata.fields, 1)

\* The loop of lines 178-186 over the elements of the list val from index i
\* (counted from 0) on: a group per dict element, until the first element
\* that is no dict.  The result adds no_dict.
MapItems(st, key, val, i) ==
  IF i >= Len(val.items) \/ st.err # NoError
  THEN [node |-> st.node, err |-> st.err, no_dict |-> FALSE]
  ELSE LET value == val.items[i + 1]
       IN IF value.t # "dict"
          THEN [node |-> st.node, err |-> st.err, no_dict |-> TRUE]
          ELSE LET made == CreateMember(st, IndexedName(key, i), Group(EmptyNode))
                   sub == recourse_entry_dict([node |-> EmptyNode, err |-> NoError], value)
               IN IF made.err # NoError
                  THEN [node |-> made.node, err |-> made.err, no_dict |-> FALSE]
                  ELSE MapItems([node |-> [st.node EXCEPT !.members =
                                             (IndexedName(key, i) :> Group(sub.node)) @@ @],
                                 err |-> sub.err],
                                key, val, i + 1)

\* The loop of lines 161-200 over the items of a dict from item k on.
MapFields(st, fields, k) ==
  IF k > Len(fields) \/ st.err # NoError THEN st
  ELSE LET key == fields[k][1]
           val == fields[k][2]
       IN CASE val.t = "dict" ->
                 IF key = "start"
                 THEN MapFields(recourse_entry_dict(st, val), fields, k + 1)
                 ELSE LET made == CreateMember(st, key, Group(EmptyNode))
                          sub == recourse_entry_dict([node |-> EmptyNode, err |-> NoError],
                                                     val)
                      IN IF made.err # NoError THEN made
                         ELSE MapFields([node |-> [st.node EXCEPT !.members =
                                                     (key :> Group(sub.node)) @@ @],
                                         err |-> sub.err],
                                        fields, k + 1)
            [] val.t = "list" ->
                 LET r == MapItems(st, key, val, 0)
                     looped == [node |-> r.node, err |-> r.err]
                 IN IF r.err = NoError /\ r.no_dict
                    THEN MapFields(CreateMember(looped, key, Dataset(ArrayLeaf(val))),
                                   fields, k + 1)
                    ELSE MapFields(looped, fields, k + 1)
            [] val.t = "none" -> MapFields(st, fields, k + 1)
            [] OTHER -> MapFields(CreateMember(st, key, Dataset(val)), fields, k + 1)

\* ---------------------------------------------------------------- FileManager
\* A path the FileManager holds is a pathlib.Path object or a str; Python
\* never finds a str equal to a Path, whatever they spell.
PathObject(name) == [obj |-> "Path", name |-> name]
PathString(name) == [obj |-> "str", name |-> name]

\* IsAbsolute with the bug of taking every path for a relative one.
IsAbsolute_Never(relative_file_path) == FALSE

\* Path(relative_file_path).is_absolute()
IsAbsolute(relative_file_path) ==
  relative_file_path # <<>> /\ Head(relative_file_path) = "/"

\* (self.directory / Path(relative_file_path)).expanduser().resolve() for a
\* path without "~", "." or ".." components
Resolve(relative_file_path) ==
  IF IsAbsolute(relative_file_path) THEN relative_file_path
  ELSE Directory \o relative_file_path

\* the test of lines 283-287 and 295-299
Collides(abs_file_path) ==
  \/ abs_file_path \in fm_reserved
  \/ (abs_file_path.name \in fm_storage /\ fm_new_file_each)

\* the loop of lines 294-304 on the string s, with the counter at i
RECURSIVE NumericSuffix(_, _)
NumericSuffix(s, i) ==
  IF Collides(PathString(s))
  THEN NumericSuffix(IF EndsWith(s, NumberedExt(i - 1))
                     THEN StrReplace(s, NumberedExt(i - 1), NumberedExt(i))
                     ELSE SplitextRoot(s) \o NumberedExt(i),
                     i + 1)
  ELSE s

\* The path FileManager.reserve_name returns for a relative path.
reserve_name(entry_name, relative_file_path) ==
  LET abs_file_path == PathObject(Resolve(relative_file_path))
      entry_name_non_iso == clean_filename(entry_name)
  IN IF ~Collides(abs_file_path) THEN abs_file_path
     ELSE PathString(NumericSuffix(
            IF EndsWith(abs_file_path.name, entry_name_non_iso \o Ext)
            THEN abs_file_path.name
            ELSE SplitextRoot(abs_file_path.name) \o <<"_">> \o entry_name_non_iso \o Ext,
            1))

\* Register with the bug of keeping only the last path of a label.
Register_KeepsLast(artifacts, entry_name, abs_file_path) ==
  (entry_name :> <<abs_file_path>>) @@ artifacts

\* self._artifacts[entry_name].append(abs_file_path) on a defaultdict(list)
Register(artifacts, entry_name, abs_file_path) ==
  IF entry_name \in DOMAIN artifacts
  THEN [artifacts EXCEPT ![entry_name] = Append(@, abs_file_path)]
  ELSE (entry_name :> <<abs_file_path>>) @@ artifacts

\* the record of a call on the FileManager: the method, how it ended, the
\* relative path it was given (empty for close), and the method called before
Call(op, outcome, arg) ==
  [op |-> op, outcome |-> outcome, arg |-> arg, prev |-> fm_last.op]
NoCall == [op |-> "none", outcome |-> "none", arg |-> <<>>, prev |-> "none"]

\* lines 305-307 of reserve_name, on a relative path
Reserved(entry_name, relative_file_path) ==
  LET abs_file_path == reserve_name(entry_name, relative_file_path)
  IN /\ fm_reserved' = fm_reserved \cup {abs_file_path}
     /\ fm_artifacts' = Register(fm_artifacts, entry_name, abs_file_path)
     /\ fm_log' = Append(fm_log, [label |-> entry_name, path |-> abs_file_path])

\* FileManager.open; created says whether h5py.File returned a handle or
\* raised OSError.  A file opened in mode "a" exists on storage afterwards.
FmOpen(relative_file_path, entry_name, created) ==
  /\ UNCHANGED fm_new_file_each
  /\ IF IsAbsolute(relative_file_path)
     THEN /\ fm_last' = Call("open", "SuitcaseUtilsValueError", relative_file_path)
          /\ UNCHANGED <<fm_reserved, fm_artifacts, fm_log, fm_files, fm_handles,
                         fm_storage>>
     ELSE /\ Reserved(entry_name, relative_file_path)
          /\ IF created
             THEN /\ fm_handles' = Append(fm_handles, "open")
                  /\ fm_files' = (reserve_name(entry_name, relative_file_path)
                                    :> (Len(fm_handles) + 1)) @@ fm_files
                  /\ fm_storage' = fm_storage
                                     \cup {reserve_name(entry_name, relative_file_path).name}
                  /\ fm_last' = Call("open", "returned", relative_file_path)
             ELSE /\ fm_last' = Call("open", "OSError", relative_file_path)
                  /\ UNCHANGED <<fm_files, fm_handles, fm_storage>>

\* the handles FileManager.close reaches
Registered == {fm_files[k] : k \in DOMAIN fm_files}

\* ClosedBy with the bug of closing only the handle opened first.
ClosedBy_FirstOnly(handles) ==
  [h \in DOMAIN handles |-> IF h = 1 /\ h \in Registered THEN "closed" ELSE handles[h]]

\* the handles after the loop of lines 320-321; h5py closes a closed file
\* without complaint
ClosedBy(handles) ==
  [h \in DOMAIN handles |-> IF h \in Registered THEN "closed" ELSE handles[h]]

\* FileManager.close
FmClose ==
  /\ fm_handles' = ClosedBy(fm_handles)
  /\ fm_last' = Call("close", "returned", <<>>)
  /\ UNCHANGED <<fm_new_file_each, fm_reserved, fm_artifacts, fm_files, fm_storage,
                 fm_log>>

\* FileManager.__init__ as Serializer.__init__ calls it with the defaults
FileManagerInit ==
  /\ fm_new_file_each = TRUE
  /\ fm_reserved = {}
  /\ fm_artifacts = <<>>
  /\ fm_files = <<>>
  /\ fm_handles = <<>>
  /\ fm_storage = {}
  /\ fm_log = <<>>
  /\ fm_last = NoCall
  /\ fm_calls = 0

\* the options of Serializer.__init__ left at their defaults
DefaultOptions ==
  /\ plot_data = <<>>
  /\ do_nexus_output = FALSE
  /\ group_attrs = <<>>
  /\ nexus_made = FALSE
  /\ stop_trace = <<>>
  /\ exited = FALSE

\* no call of the mapper experiment was made
NoMapper ==
  /\ mp_metadata = Dict(<<>>)
  /\ mp_entry = EmptyNode
  /\ mp_err = NoError
  /\ mp_done = FALSE

\* a start document without session_name, user and sample
DefaultDoc == [session_name |-> <<>>, user |-> Dict(<<>>), sample |-> Dict(<<>>)]

\* Serializer.__init__ (lines 382, 391) on a directory without containers
NoEntry ==
  /\ h5_output_file = <<>>
  /\ run_entry_name = <<>>
  /\ entry = EmptyNode
EmptyDirectory ==
  /\ start_doc = DefaultDoc
  /\ h5_tree = <<>>
  /\ runs = 1
  /\ NoEntry

Init ==
  /\ SerializerInit
  /\ NoAppend
  /\ FileManagerInit
  /\ DefaultOptions
  /\ NoMapper
  /\ EmptyDirectory

\* The history record of the document just handled.
LastDoc(doc, outcome) ==
  [doc |-> doc, outcome |-> outcome, prev |-> last.outcome, name |-> "",
   uid |-> NoStream, badkey |-> "", badkind |-> "ok", wasnew |-> FALSE,
   first |-> 0, rows |-> 0]

\* ---------------------------------------------------------------- start
\* a handler raises e
Fail(e) ==
  /\ phase' = "failed"
  /\ err' = e

\* the default entry name (line 486) and the relative path start hands to
\* the manager (lines 481-485)
DefaultEntry == <<"e", "n", "t", "r", "y">>
RunFile == <<"r", "u", "n">> \o Ext

\* lines 486-488: the session name, or the default when it is absent or empty
EntryLabel(doc) == IF doc.session_name # <<>> THEN doc.session_name ELSE DefaultEntry

Nano == <<"N", "A", "N", "O", "_">>
Underscored(i) == <<"_">> \o Digits(i)

\* DedupEntry with the bug of trying one suffix only.
DedupEntry_Once(name, i, names) ==
  IF name \in names
  THEN [name |-> name \o Underscored(i), i |-> i + 1]
  ELSE [name |-> name, i |-> i]

\* The loop of lines 499-504 on the names of the container's top-level nodes:
\* the name it ends with, and the counter i.
RECURSIVE DedupEntry(_, _, _)
DedupEntry(name, i, names) ==
  IF name \in names
  THEN DedupEntry(IF EndsWith(name, Underscored(i - 1))
                  THEN StrReplace(name, Underscored(i - 1), Underscored(i))
                  ELSE name \o Underscored(i),
                  i + 1, names)
  ELSE [name |-> name, i |-> i]

\* the top-level nodes of the container the Serializer has open
TopNames == GetOr(h5_tree, h5_output_file, {})

\* IdService with the bug of dropping the supplied service.
IdService_AlwaysUnknown(record) == Text("unknown")

\* lines 572-575, 580-583, 594-597: the issuing service of an identifier
IdService(record) ==
  IF HasKey(record, "ELN-service") THEN ValueOf(record, "ELN-service") ELSE Text("unknown")

\* The identifier group made from the field id_key of a record (lines
\* 569-575, 577-583, 589-597), and the record without the fields it popped.
IdentifierGroup(record, id_key, with_full) ==
  LET full == with_full /\ HasKey(record, "full_identifier")
      members == ("identifier" :> Dataset(ValueOf(record, id_key)))
                    @@ ("service" :> Dataset(IdService(record)))
                    @@ (IF full
                        THEN ("full_identifier" :> Dataset(ValueOf(record, "full_identifier")))
                        ELSE <<>>)
      popped == Pop(Pop(record, id_key), "ELN-service")
  IN [group |-> Group([attrs |-> ("NX_class" :> Text("NXidentifier")), members |-> members]),
      rest |-> IF full THEN Pop(popped, "full_identifier") ELSE popped]

\* a node with the identifier group of a record as its member
WithIdentifier(class, id) ==
  [node |-> [attrs |-> ("NX_class" :> Text(class)),
             members |-> ("identifier" :> id.group)],
   err |-> NoError]
WithoutIdentifier(class) ==
  [node |-> [attrs |-> ("NX_class" :> Text(class)), members |-> <<>>], err |-> NoError]

\* lines 565-584: the user node and the exception its making raised
UserNode(user_data) ==
  IF HasKey(user_data, "user_id")
  THEN LET id == IdentifierGroup(user_data, "user_id", FALSE)
       IN recourse_entry_dict(WithIdentifier("NXuser", id), id.rest)
  ELSE IF HasKey(user_data, "identifier")
  THEN LET id == IdentifierGroup(user_data, "identifier", FALSE)
       IN recourse_entry_dict(WithIdentifier("NXuser", id), id.rest)
  ELSE recourse_entry_dict(WithoutIdentifier("NXuser"), user_data)

\* lines 585-598: the sample node and the exception its making raised
SampleNode(sample_data) ==
  IF HasKey(sample_data, "identifier")
  THEN LET id == IdentifierGroup(sample_data, "identifier", TRUE)
       IN recourse_entry_dict(WithIdentifier("NXsample", id), id.rest)
  ELSE recourse_entry_dict(WithoutIdentifier("NXsample"), sample_data)

\* the exception lines 565-598 raise on the start document, or NoError
IdentityError ==
  IF UserNode(start_doc.user).err # NoError THEN UserNode(start_doc.user).err
  ELSE SampleNode(start_doc.sample).err

\* lines 565-598: the sample node is made when the user node raised nothing
EntryNodes ==
  [attrs |-> ("NX_class" :> Text("NXentry")),
   members |-> ("user" :> Group(UserNode(start_doc.user).node))
                 @@ (IF UserNode(start_doc.user).err = NoError
                     THEN ("sample" :> Group(SampleNode(start_doc.sample).node))
                     ELSE <<>>)]

\* lines 486-507 and 565-598 of Serializer.start: the container is opened,
\* the entry is created under a name no top-level node has, the user and
\* sample nodes are made
OpenEntry ==
  /\ FmOpen(RunFile, EntryLabel(start_doc), TRUE)
  /\ \E path \in {reserve_name(EntryLabel(start_doc), RunFile).name} :
       \E d \in {DedupEntry(Nano \o EntryLabel(start_doc), 1, GetOr(h5_tree, path, {}))} :
         /\ h5_output_file' = path
         /\ run_entry_name' = d.name
         /\ h5_tree' = (path :> (GetOr(h5_tree, path, {}) \cup {d.name})) @@ h5_tree
  /\ entry' = EntryNodes
  /\ UNCHANGED <<start_doc, runs>>

\* Serializer.start on a document that names a device without
\* "device_class_name": the container is open when line 635 raises KeyError.
StartFails(t) ==
  /\ phase = "new"
  /\ IdentityError = NoError
  /\ UNCHANGED <<apvars, mvars, xvars, fm_calls>>
  /\ OpenEntry
  /\ Fail("KeyError")
  /\ start_time' = t
  /\ now' = t
  /\ last' = LastDoc("start", "raised")
  /\ UNCHANGED <<channel_links, stream_groups, stream_names, stream_metadata,
                 stream_counter, current_stream, channels_in_streams, groups, time,
                 elapsed, data, meas_fields, value_log, timestamps, stitched, ndocs,
                 ndescriptors, rows_routed, skipped, writers>>

\* Serializer.start: keeps the run's start time, opens the container and
\* creates the entry with its user and sample nodes, records the canonical
\* location of every channel declared under a device, creates the data
\* entry.  An exception of the user or sample record ends it before the
\* devices are read.
Start(t, links) ==
  /\ phase = "new"
  /\ UNCHANGED <<apvars, mvars, xvars, fm_calls>>
  /\ OpenEntry
  /\ start_time' = t
  /\ now' = t
  /\ IF IdentityError # NoError
     THEN /\ Fail(IdentityError)
          /\ last' = LastDoc("start", "raised")
          /\ UNCHANGED <<channel_links, groups>>
     ELSE /\ phase' = "active"
          /\ channel_links' = links
          /\ groups' = {DataEntry}
          /\ last' = LastDoc("start", "started")
          /\ UNCHANGED err
  /\ UNCHANGED <<stream_groups, stream_names, stream_metadata, stream_counter,
                 current_stream, channels_in_streams, time, elapsed, data,
                 meas_fields, value_log, timestamps, stitched, ndocs,
                 ndescriptors, rows_routed, skipped, writers>>

\* ---------------------------------------------------------------- descriptor
\* The test of line 686: the name is looked up among the keys of
\* _stream_groups, which are stream identifiers (line 696).
AlreadyExists(stream_name) == stream_name \in DOMAIN stream_groups

\* h5py's Group.create_group raises ValueError when the name is taken.
CreateGroupFails(stream_name) == stream_name \in groups

\* Serializer.descriptor
Descriptor(uid, stream_name, data_keys) ==
  /\ phase = "active"
  /\ UNCHANGED <<apvars, mvars, hvars, fmvars, xvars>>
  /\ uid = Uid(ndescriptors + 1)
  /\ ndescriptors' = ndescriptors + 1
  /\ ndocs' = ndocs + 1
  /\ UNCHANGED <<start_time, channel_links, stream_counter, current_stream,
                 channels_in_streams, time, elapsed, data, meas_fields, value_log,
                 timestamps, stitched, now, rows_routed, skipped, writers>>
  /\ IF stream_name = FitsName
     THEN /\ last' = [LastDoc("descriptor", "ignored") EXCEPT !.name = stream_name, !.uid = uid]
          /\ UNCHANGED <<phase, err, stream_groups, stream_names, stream_metadata, groups>>
     ELSE IF AlreadyExists(stream_name)
     THEN /\ Fail("ValueError")
          /\ last' = [LastDoc("descriptor", "raised") EXCEPT !.name = stream_name, !.uid = uid]
          /\ UNCHANGED <<stream_groups, stream_names, stream_metadata, groups>>
     ELSE IF stream_name = LiveName
     THEN /\ stream_groups' = (uid :> LiveName) @@ stream_groups
          /\ last' = [LastDoc("descriptor", "redirected") EXCEPT !.name = stream_name, !.uid = uid]
          /\ UNCHANGED <<phase, err, stream_names, stream_metadata, groups>>
     ELSE IF stream_name # "primary" /\ CreateGroupFails(stream_name)
     THEN /\ Fail("ValueError")
          /\ last' = [LastDoc("descriptor", "raised") EXCEPT !.name = stream_name, !.uid = uid]
          /\ UNCHANGED <<stream_groups, stream_names, stream_metadata, groups>>
     ELSE /\ groups' = IF stream_name = "primary" THEN groups ELSE groups \cup {stream_name}
          /\ stream_groups' =
               (uid :> (IF stream_name = "primary" THEN DataEntry ELSE stream_name))
                 @@ stream_groups
          /\ stream_names' = (stream_name :> uid) @@ stream_names
          /\ stream_metadata' = (uid :> data_keys) @@ stream_metadata
          /\ last' = [LastDoc("descriptor", "registered") EXCEPT !.name = stream_name, !.uid = uid]
          /\ UNCHANGED <<phase, err>>

\* ---------------------------------------------------------------- event_page
\* The array np.asarray(ep_data_list) of one key of a batch of n rows whose
\* first timestamp is t.
BatchArray(kind, t, n) ==
  [rows |-> IF kind = "lead0" THEN <<>> ELSE [i \in 1..n |-> t + i - 1],
   trailOk |-> kind # "trail0"]

\* any(dim <= 0 for dim in ep_data_array.shape)
NonPositiveDim(arr) == Len(arr.rows) = 0 \/ ~arr.trailOk

\* AddData with the bug of growing an existing dataset by one row per call,
\* as the time array is grown, whatever the size of the batch.
AddData_GrowsByOne(ds, arr) ==
  IF ds = <<>>
  THEN IF NonPositiveDim(arr)
       THEN [ds |-> ds, err |-> NoError, skip |-> TRUE]
       ELSE [ds |-> arr.rows, err |-> NoError, skip |-> FALSE]
  ELSE IF NonPositiveDim(arr)
       THEN [ds |-> ds \o Repeat(FillRow, Len(arr.rows)), err |-> "TypeError",
             skip |-> FALSE]
       ELSE [ds |-> Append(ds, arr.rows[Len(arr.rows)]), err |-> NoError, skip |-> FALSE]

\* Serializer._add_data_to_stream_group on the dataset ds of the key (<<>>
\* when the group has no such key).  h5py refuses to write an array whose
\* shape cannot be broadcast to the selection, after the resize was done.
AddData(ds, arr) ==
  IF ds = <<>>
  THEN IF NonPositiveDim(arr)
       THEN [ds |-> ds, err |-> NoError, skip |-> TRUE]
       ELSE [ds |-> arr.rows, err |-> NoError, skip |-> FALSE]
  ELSE IF NonPositiveDim(arr)
       THEN [ds |-> ds \o Repeat(FillRow, Len(arr.rows)), err |-> "TypeError",
             skip |-> FALSE]
       ELSE [ds |-> ds \o arr.rows, err |-> NoError, skip |-> FALSE]

\* line 740-741: the stream is recorded for a key only when the key is new
RecordStream(cis, key, uid) ==
  IF CisHas(cis, key) THEN cis ELSE Append(cis, [ch |-> key, streams |-> <<uid>>])

\* The loop of lines 738-772 over the keys of doc["data"] in dict order, on
\* st = [d: the group's datasets, cis: _channels_in_streams, err, skip, wrote].
\* An exception leaves the loop with what was written so far.
RECURSIVE WriteKeys(_, _, _, _, _, _)
WriteKeys(order, kinds, uid, t, n, st) ==
  IF order = <<>> \/ st.err # NoError THEN st
  ELSE LET key == Head(order)
           arr == BatchArray(kinds[key], t, n)
       IN IF key \notin stream_metadata[uid]
          THEN [st EXCEPT !.err = "KeyError"]
          ELSE LET cis1 == RecordStream(st.cis, key, uid)
               IN IF Len(arr.rows) = 0
                  THEN \* ep_data_list[0] of an empty list (line 743)
                       [st EXCEPT !.cis = cis1, !.err = "IndexError"]
                  ELSE LET r == AddData(st.d[key], arr)
                       IN WriteKeys(Tail(order), kinds, uid, t, n,
                            [d |-> [st.d EXCEPT ![key] = r.ds],
                             cis |-> cis1,
                             err |-> r.err,
                             skip |-> IF r.skip THEN st.skip \cup {key} ELSE st.skip,
                             wrote |-> IF r.skip \/ r.err # NoError THEN st.wrote
                                       ELSE st.wrote \cup {key}])

\* CountVisit with the bug of never coalescing.
CountVisit_AlwaysAppends(uid) == Append(stream_counter, <<uid, 1>>)

\* lines 715-719
CountVisit(uid) ==
  IF current_stream # uid
  THEN Append(stream_counter, <<uid, 1>>)
  ELSE [stream_counter EXCEPT ![Len(stream_counter)] = <<uid, @[2] + 1>>]

\* Since with the bug of storing the absolute timestamp.
Since_Absolute(t) == t

\* line 722: the timestamp of the batch relative to the start of the run
Since(t) == t - start_time

\* AppendTime with the bug of writing the last entry without growing the array.
AppendTime_NoResize(ts, t) ==
  IF ts = <<>> THEN <<t>> ELSE [ts EXCEPT ![Len(ts)] = t]

\* lines 722-737: one timestamp per call, the first of the batch
AppendTime(ts, t) == Append(ts, t)

\* EventPageUnknown with the bug of counting the batch in the ledger.
EventPageUnknown_Counts(uid) ==
  /\ phase = "active"
  /\ UNCHANGED <<apvars, mvars, hvars, fmvars, xvars>>
  /\ uid \notin DOMAIN stream_groups
  /\ ndocs' = ndocs + 1
  /\ last' = [LastDoc("event_page", "discarded") EXCEPT !.uid = uid]
  /\ current_stream' = uid
  /\ stream_counter' = Append(stream_counter, <<uid, 1>>)
  /\ UNCHANGED <<phase, err, start_time, channel_links, stream_groups, stream_names,
                 stream_metadata, channels_in_streams,
                 groups, time, elapsed, data, meas_fields, value_log, timestamps,
                 stitched, now, ndescriptors, rows_routed, skipped, writers>>

\* A batch on an identifier that has no entry in _stream_groups (line 707).
EventPageUnknown(uid) ==
  /\ phase = "active"
  /\ UNCHANGED <<apvars, mvars, hvars, fmvars, xvars>>
  /\ uid \notin DOMAIN stream_groups
  /\ ndocs' = ndocs + 1
  /\ last' = [LastDoc("event_page", "discarded") EXCEPT !.uid = uid]
  /\ UNCHANGED <<phase, err, start_time, channel_links, stream_groups, stream_names,
                 stream_metadata, stream_counter, current_stream, channels_in_streams,
                 groups, time, elapsed, data, meas_fields, value_log, timestamps,
                 stitched, now, ndescriptors, rows_routed, skipped, writers>>

\* EventPageLive with the bug of moving the current-stream marker.
EventPageLive_MovesMarker(uid, fields) ==
  /\ phase = "active"
  /\ UNCHANGED <<apvars, mvars, hvars, fmvars, xvars>>
  /\ uid \in DOMAIN stream_groups
  /\ stream_groups[uid] = LiveName
  /\ ndocs' = ndocs + 1
  /\ meas_fields' = meas_fields \cup fields
  /\ current_stream' = uid
  /\ IF fields \cap meas_fields # {}
     THEN /\ Fail("ValueError")
          /\ last' = [LastDoc("event_page", "raised") EXCEPT !.uid = uid]
     ELSE /\ UNCHANGED <<phase, err>>
          /\ last' = [LastDoc("event_page", "redirected") EXCEPT !.uid = uid]
  /\ UNCHANGED <<start_time, channel_links, stream_groups, stream_names,
                 stream_metadata, stream_counter, channels_in_streams,
                 groups, time, elapsed, data, value_log, timestamps,
                 stitched, now, ndescriptors, rows_routed, skipped, writers>>

\* A batch on the live-metadata identifier (lines 709-714): each field of the
\* record becomes a dataset of measurement_details; h5py refuses a name that
\* exists.
EventPageLive(uid, fields) ==
  /\ phase = "active"
  /\ UNCHANGED <<apvars, mvars, hvars, fmvars, xvars>>
  /\ uid \in DOMAIN stream_groups
  /\ stream_groups[uid] = LiveName
  /\ ndocs' = ndocs + 1
  /\ meas_fields' = meas_fields \cup fields
  /\ IF fields \cap meas_fields # {}
     THEN /\ Fail("ValueError")
          /\ last' = [LastDoc("event_page", "raised") EXCEPT !.uid = uid]
     ELSE /\ UNCHANGED <<phase, err>>
          /\ last' = [LastDoc("event_page", "redirected") EXCEPT !.uid = uid]
  /\ UNCHANGED <<start_time, channel_links, stream_groups, stream_names,
                 stream_metadata, stream_counter, current_stream, channels_in_streams,
                 groups, time, elapsed, data, value_log, timestamps,
                 stitched, now, ndescriptors, rows_routed, skipped, writers>>

\* The malformed key of a batch and its shape ("" and "ok" when there is none).
BadKey(kinds) ==
  IF \E k \in DOMAIN kinds : kinds[k] # "ok"
  THEN CHOOSE k \in DOMAIN kinds : kinds[k] # "ok" ELSE ""
BadKind(kinds) == IF BadKey(kinds) = "" THEN "ok" ELSE kinds[BadKey(kinds)]

\* A batch of n rows on a stream that has a group (lines 715-772).
EventPage(uid, n, order, kinds) ==
  /\ phase = "active"
  /\ UNCHANGED <<apvars, mvars, hvars, fmvars, xvars>>
  /\ uid \in DOMAIN stream_groups
  /\ stream_groups[uid] # LiveName
  /\ \E st \in {WriteKeys(order, kinds, uid, now, n,
                   [d |-> data[stream_groups[uid]], cis |-> channels_in_streams,
                    err |-> NoError, skip |-> {}, wrote |-> {}])} :
     LET g == stream_groups[uid]
     IN /\ current_stream' = uid
        /\ stream_counter' = CountVisit(uid)
        /\ time' = [time EXCEPT ![g] = AppendTime(@, now)]
        /\ elapsed' = [elapsed EXCEPT ![g] = AppendTime(@, Since(now))]
        /\ data' = [data EXCEPT ![g] = st.d]
        /\ channels_in_streams' = st.cis
        /\ skipped' = skipped \cup {<<g, k>> : k \in st.skip}
        /\ IF st.err # NoError
           THEN Fail(st.err)
           ELSE UNCHANGED <<phase, err>>
        /\ writers' = writers \cup {<<uid, k>> : k \in st.wrote}
        /\ last' = [LastDoc("event_page", "written") EXCEPT
                      !.uid = uid, !.first = now, !.rows = n,
                      !.badkey = BadKey(kinds), !.badkind = BadKind(kinds),
                      !.wasnew = BadKey(kinds) # "" /\ data[g][BadKey(kinds)] = <<>>]
  /\ now' = now + n
  /\ ndocs' = ndocs + 1
  /\ rows_routed' = rows_routed + n
  /\ UNCHANGED <<start_time, channel_links, stream_groups, stream_names,
                 stream_metadata, groups, meas_fields, value_log, timestamps,
                 stitched, ndescriptors>>

\* ---------------------------------------------------------------- stop
\* Serializer.get_length_of_stream
get_length_of_stream(stream_id) == Len(time[stream_groups[stream_id]])

\* lines 811-816: the sum over the channel's recorded streams
RECURSIVE TotalLength(_)
TotalLength(stream_docs) ==
  IF stream_docs = <<>> THEN 0
  ELSE get_length_of_stream(Head(stream_docs)) + TotalLength(Tail(stream_docs))

\* The slice [lo : lo + count] of an axis of the given length, as h5py
\* selects it: clipped to the axis like a Python slice.
SliceStart(lo, length) == Min(lo, length)
SliceSize(lo, count, length) == Min(lo + count, length) - Min(lo, length)

\* layout[n : n + count] = source[n_stream : n_stream + count] (lines 838-841):
\* HDF5 maps the selections on each other and refuses two selections of
\* different sizes.
MapSlice(layout, n, stream, n_stream, count, srcLen) ==
  LET vsize == SliceSize(n, count, Len(layout.slots))
      ssize == SliceSize(n_stream, count, srcLen)
      v0 == SliceStart(n, Len(layout.slots))
      s0 == SliceStart(n_stream, srcLen)
  IN IF vsize # ssize
     THEN [layout EXCEPT !.ok = FALSE]
     ELSE [layout EXCEPT !.slots =
             [i \in 1..Len(layout.slots) |->
                IF v0 < i /\ i <= v0 + vsize THEN <<stream, s0 + (i - v0)>> ELSE @[i]]]

\* The replay of lines 828-843 over the entries of _stream_counter from
\* entry k on; cursor is counts_per_stream.
RECURSIVE Replay(_, _, _, _, _, _, _)
Replay(k, ch, stream_docs, n, cursor, lv, lt) ==
  IF k > Len(stream_counter) THEN [value |-> lv, time |-> lt, n |-> n]
  ELSE LET stream == stream_counter[k][1]
           count == stream_counter[k][2]
       IN IF stream \notin Range(stream_docs)
          THEN Replay(k + 1, ch, stream_docs, n, cursor, lv, lt)
          ELSE LET n_stream == IF stream \in DOMAIN cursor THEN cursor[stream] ELSE 0
                   g == stream_groups[stream]
               IN Replay(k + 1, ch, stream_docs, n + count,
                         (stream :> n_stream + count) @@ cursor,
                         MapSlice(lv, n, stream, n_stream, count, Len(data[g][ch])),
                         MapSlice(lt, n, stream, n_stream, count, Len(time[g])))

\* The body of the loop of lines 808-845 for one channel.
Stitch(ch, stream_docs) ==
  LET total_length == TotalLength(stream_docs)
      missing == \E i \in 1..Len(stream_docs) : data[stream_groups[stream_docs[i]]][ch] = <<>>
      empty == [slots |-> Repeat(Unmapped, total_length), ok |-> TRUE]
      r == Replay(1, ch, stream_docs, 0, <<>>, empty, empty)
  IN IF missing THEN [err |-> "KeyError", value |-> Unmapped, time |-> Unmapped, made |-> FALSE]
     ELSE IF ~r.value.ok
     THEN [err |-> "ValueError", value |-> Unmapped, time |-> Unmapped, made |-> FALSE]
     ELSE IF ~r.time.ok
     THEN [err |-> "ValueError", value |-> r.value.slots, time |-> Unmapped, made |-> FALSE]
     ELSE [err |-> NoError, value |-> r.value.slots, time |-> r.time.slots, made |-> TRUE]

\* The loop of lines 808-845 over _channels_in_streams in insertion order,
\* from entry k on; an exception leaves the loop.
RECURSIVE StitchAll(_, _)
StitchAll(k, st) ==
  IF k > Len(channels_in_streams) \/ st.err # NoError THEN st
  ELSE LET ch == channels_in_streams[k].ch
       IN IF ch \notin channel_links
          THEN StitchAll(k + 1, st)
          ELSE LET r == Stitch(ch, channels_in_streams[k].streams)
               IN StitchAll(k + 1,
                    [err |-> r.err,
                     value |-> [st.value EXCEPT ![ch] = r.value],
                     time |-> [st.time EXCEPT ![ch] = r.time],
                     made |-> IF r.made THEN st.made \cup {ch} ELSE st.made])

\* list.append unless the value is in the list (lines 857-867)
AddOnce(list, v) == IF v \in Range(list) THEN list ELSE Append(list, v)

\* A plot object is [stream_name, has]: has is the set of the attributes it
\* carries among x_name, y_name, z_name, y_names; their values are "x", "y",
\* "z" and ["y"].  No plot carries liveFits.
\* The loop of lines 849-909 on st = [axes, signals, err]: reading an
\* attribute the plot does not carry raises AttributeError.
RECURSIVE PlotExport(_, _)
PlotExport(plots, st) ==
  IF plots = <<>> \/ st.err # NoError THEN st
  ELSE LET plot == Head(plots)
           name == plot.stream_name
           axes == AddOnce(GetOr(st.axes, name, <<>>), "x")
           signals == GetOr(st.signals, name, <<>>)
       IN IF ~(name \in DOMAIN stream_names /\ "x_name" \in plot.has)
          THEN PlotExport(Tail(plots), st)
          ELSE IF "z_name" \in plot.has
          THEN IF "y_name" \notin plot.has
               THEN [st EXCEPT !.err = "AttributeError"]
               ELSE PlotExport(Tail(plots),
                      [axes |-> (name :> AddOnce(axes, "y")) @@ st.axes,
                       signals |-> (name :> AddOnce(signals, "z")) @@ st.signals,
                       err |-> NoError])
          ELSE IF "y_names" \notin plot.has
               THEN [st EXCEPT !.err = "AttributeError"]
               ELSE PlotExport(Tail(plots),
                      [axes |-> (name :> axes) @@ st.axes,
                       signals |-> (name :> AddOnce(signals, "y")) @@ st.signals,
                       err |-> NoError])

\* lines 910-917: the attributes written to the group of each stream
WrittenAttrs(pe) ==
  [name \in DOMAIN pe.axes |-> [axes |-> pe.axes[name], signals |-> pe.signals[name]]]

\* StopSteps with the bug of closing the container before the projection.
StopSteps_ClosesEarly(stitch_err, export_err, nexus) ==
  IF stitch_err # NoError THEN <<"stitch">>
  ELSE IF export_err # NoError THEN <<"stitch", "export">>
  ELSE <<"stitch", "export", "close">> \o (IF nexus THEN <<"project">> ELSE <<>>)

\* The steps of the stop handler in the order of the code: the stitching
\* (lines 808-845), the plot export (847-917), make_nexus_structure when
\* enabled (919-920), self.close() (922).  An exception ends the handler.
StopSteps(stitch_err, export_err, nexus) ==
  IF stitch_err # NoError THEN <<"stitch">>
  ELSE IF export_err # NoError THEN <<"stitch", "export">>
  ELSE <<"stitch", "export">> \o (IF nexus THEN <<"project">> ELSE <<>>) \o <<"close">>

\* lines 925-928 of make_nexus_structure: self._entry_name[7:]
NexusName(name) ==
  <<"N", "e", "X", "u", "s", "_">>
    \o (IF StartsWith(name, Nano) THEN SubSeq(name, 8, Len(name)) ELSE name)

\* line 929: create_group raises ValueError when the container has a
\* top-level node of that name
ProjectionFails == NexusName(run_entry_name) \in TopNames

\* Serializer.stop
Stop ==
  /\ phase = "active"
  /\ UNCHANGED <<apvars, mvars, fm_calls, plot_data, do_nexus_output, exited>>
  /\ UNCHANGED <<start_doc, h5_output_file, run_entry_name, entry, runs>>
  /\ \E st \in {StitchAll(1, [err |-> NoError, value |-> value_log, time |-> timestamps,
                               made |-> {}])},
        pe \in {PlotExport(plot_data, [axes |-> <<>>, signals |-> <<>>, err |-> NoError])} :
     LET written == st.err = NoError /\ pe.err = NoError
         clash == written /\ do_nexus_output /\ ProjectionFails
         e == IF st.err # NoError THEN st.err
              ELSE IF pe.err # NoError THEN pe.err
              ELSE IF clash THEN "ValueError" ELSE NoError
         steps == IF clash THEN <<"stitch", "export", "project">>
                  ELSE StopSteps(st.err, pe.err, do_nexus_output)
     IN /\ value_log' = st.value
        /\ timestamps' = st.time
        /\ stitched' = st.made
        /\ stop_trace' = steps
        /\ group_attrs' = IF written THEN WrittenAttrs(pe) ELSE group_attrs
        /\ nexus_made' = ("project" \in Range(steps) /\ ~clash)
        /\ h5_tree' = IF nexus_made'
                      THEN (h5_output_file :> (TopNames \cup {NexusName(run_entry_name)}))
                             @@ h5_tree
                      ELSE h5_tree
        /\ IF "close" \in Range(steps)
           THEN FmClose
           ELSE UNCHANGED <<fm_new_file_each, fm_reserved, fm_artifacts, fm_files,
                            fm_handles, fm_storage, fm_log, fm_last>>
        /\ IF e # NoError
           THEN Fail(e)
           ELSE /\ phase' = "stopped"
                /\ UNCHANGED err
  /\ last' = LastDoc("stop", IF phase' = "stopped" THEN "stopped" ELSE "raised")
  /\ UNCHANGED <<start_time, channel_links, stream_groups, stream_names,
                 stream_metadata, stream_counter, current_stream, channels_in_streams,
                 groups, time, elapsed, data, meas_fields, now, ndocs,
                 ndescriptors, rows_routed, skipped, writers>>

\* ---------------------------------------------------------------- the run
\* The shapes of a batch's arrays: at most one key is malformed, and a batch
\* with a malformed key carries one timestamp.
KindChoices(keys, n) ==
  {f \in [keys -> ShapeKinds] :
     Cardinality({k \in keys : f[k] # "ok"}) <= (IF n = 1 THEN 1 ELSE 0)}

\* The keys of a batch are the keys its descriptor declared (event_model
\* validates this upstream), iterated in the order of KeyOrder.
InOrder(keys) == SelectSeq(KeyOrder, LAMBDA k : k \in keys)

\* The data keys a descriptor of the given name declares; the descriptors the
\* code ignores or redirects carry keys it never reads.
KeysFor(name) == IF name \in {LiveName, FitsName} THEN {{"temp"}} ELSE DataKeyChoices

\* Serializer.__exit__: the with-block of export is left, after the last
\* document or by the exception of a handler.
Exit_KeepsOpen ==
  /\ ~exited
  /\ exited' = TRUE
  /\ UNCHANGED <<svars, apvars, mvars, hvars, fmvars, plot_data, do_nexus_output, group_attrs,
                 nexus_made, stop_trace>>

Exit ==
  /\ ~exited
  /\ exited' = TRUE
  /\ FmClose
  /\ UNCHANGED <<svars, apvars, mvars, hvars, fm_calls, plot_data, do_nexus_output, group_attrs,
                 nexus_made, stop_trace>>

Next ==
  \/ \E t \in StartTimes, links \in LinkChoices : Start(t, links)
  \/ \E t \in StartTimes : StartFails(t)
  \/ /\ ndocs < MaxDocs
     /\ \E name \in StreamNames : \E keys \in KeysFor(name) :
          Descriptor(Uid(ndescriptors + 1), name, keys)
  \/ /\ ndocs < MaxDocs
     /\ \E k \in 1..(ndescriptors + 1) : EventPageUnknown(Uid(k))
  \/ /\ ndocs < MaxDocs
     /\ \E uid \in DOMAIN stream_groups : EventPageLive(uid, LiveFields)
  \/ /\ ndocs < MaxDocs
     /\ \E uid \in DOMAIN stream_metadata, n \in RowCounts :
          \E kinds \in KindChoices(stream_metadata[uid], n) :
            EventPage(uid, n, InOrder(stream_metadata[uid]), kinds)
  \/ Stop

Spec == Init /\ [][Next]_vars

\* ---------------------------------------------------------------- reading
\* What a reader of a virtual dataset gets: the row of the source dataset a
\* slot is mapped to, the fill value for a slot that is mapped to nothing.
ReadValue(ch, slot) ==
  IF slot = Unmapped THEN FillRow ELSE data[stream_groups[slot[1]]][ch][slot[2]]
ReadTime(slot) ==
  IF slot = Unmapped THEN FillRow ELSE time[stream_groups[slot[1]]][slot[2]]
ViewValues(ch) == [i \in 1..Len(value_log[ch]) |-> ReadValue(ch, value_log[ch][i])]
ViewTimes(ch) == [i \in 1..Len(timestamps[ch]) |-> ReadTime(timestamps[ch][i])]

\* The raw array of a channel in the group of a stream.
RawArray(uid, ch) == data[stream_groups[uid]][ch]

\* ---------------------------------------------------------------- scenario
\* The run of the interleaving test: two streams "primary" and "aux" that
\* both declare the linked channel "temp", fed one row at a time.
ScenarioDocs == 15

ScenarioNext ==
  \/ \E t \in StartTimes : Start(t, {"temp"})
  \/ /\ ndescriptors < 2
     /\ Descriptor(Uid(ndescriptors + 1),
                   IF ndescriptors = 0 THEN "primary" ELSE "aux", {"temp"})
  \/ /\ ndescriptors = 2
     /\ ndocs < ScenarioDocs
     /\ \E uid \in DOMAIN stream_metadata :
          EventPage(uid, 1, <<"temp">>, [k \in {"temp"} |-> "ok"])
  \/ Stop

ScenarioSpec == Init /\ [][ScenarioNext]_vars

\* ---------------------------------------------------------------- claims
\* C1: interleaving fidelity.  When the linked channel "temp" was fed by
\* stream A (rows 0-4), then stream B (rows 0-2), then stream A again (rows
\* 5-9), the value view created at stop reads A0..A4, B0..B2, A5..A9: 13 rows
\* in arrival order.
C1_InterleavingFidelity ==
  (/\ phase = "stopped"
   /\ stream_counter = << <<Uid(1), 5>>, <<Uid(2), 3>>, <<Uid(1), 5>> >>)
  => ViewValues("temp") = SubSeq(RawArray(Uid(1), "temp"), 1, 5)
                          \o SubSeq(RawArray(Uid(2), "temp"), 1, 3)
                          \o SubSeq(RawArray(Uid(1), "temp"), 6, 10)

\* The streams that wrote rows to a channel, and the rows a channel holds
\* in all stream groups together.
WritersOf(ch) == {w[1] : w \in {x \in writers : x[2] = ch}}
RowsWritten(ch) == Len(data[DataEntry][ch]) + Len(data["aux"][ch])

\* C2: round trip.  At stop, the value view of a linked channel whose rows
\* all arrived from one stream equals that stream's raw array: same length,
\* same rows, same order.
C2_RoundTrip ==
  phase = "stopped" =>
    \A ch \in channel_links :
      \A uid \in DOMAIN stream_metadata :
        WritersOf(ch) = {uid} => ViewValues(ch) = RawArray(uid, ch)

\* C3: at stop, the length of the view of a linked channel is the number of
\* rows written to the channel over all the streams that wrote to it.
C3_TotalLength ==
  phase = "stopped" =>
    \A ch \in channel_links \cap CisKeys : Len(value_log[ch]) = RowsWritten(ch)

\* A run with the single stream "primary" that declares the single channel
\* "temp", every batch well formed.
OnlyPrimaryTemp ==
  /\ phase \in {"active", "stopped"}
  /\ DOMAIN stream_groups = {Uid(1)}
  /\ DOMAIN stream_names = {"primary"}
  /\ stream_metadata[Uid(1)] = {"temp"}
  /\ skipped = {}

\* C4: end to end.  In a run with the one stream "primary" and one scalar
\* channel, the channel dataset, the time array and the ElapsedTime array
\* each hold one entry per row delivered, and time holds the absolute
\* timestamp of every row in arrival order (ElapsedTime the same, relative
\* to the start time).
C4_EndToEnd ==
  OnlyPrimaryTemp =>
    /\ Len(data[DataEntry]["temp"]) = rows_routed
    /\ time[DataEntry] = [i \in 1..rows_routed |-> start_time + i - 1]
    /\ elapsed[DataEntry] = [i \in 1..rows_routed |-> i - 1]

\* The sum of the counts of the entries of the ledger.
LedgerRows == SumSeq([i \in 1..Len(stream_counter) |-> stream_counter[i][2]])

\* C5: the counts of the ledger add up to the rows carried by the batches
\* that were routed to a stream group.
C5_LedgerCountsRows == LedgerRows = rows_routed

\* C6: no two consecutive entries of the ledger carry the same stream
\* identifier.
C6_NoAdjacentSameStream ==
  \A i \in 1..(Len(stream_counter) - 1) : stream_counter[i][1] # stream_counter[i + 1][1]

\* C6 witness: a batch was written right after a batch on an unknown or
\* live-metadata stream, and was coalesced into the entry of its stream.
C6_Witness ==
  /\ last.doc = "event_page"
  /\ last.outcome = "written"
  /\ last.prev \in {"discarded", "redirected"}
  /\ Len(stream_counter) = 1
  /\ stream_counter[1][2] >= 2

\* C7: a descriptor whose stream name already has a stream group raises and
\* registers nothing, for every stream name.
C7_DuplicateIsFatal ==
  [][(/\ ndescriptors' = ndescriptors + 1
      /\ last'.name \in DOMAIN stream_names)
     => (/\ phase' = "failed"
         /\ stream_groups' = stream_groups
         /\ stream_names' = stream_names
         /\ stream_metadata' = stream_metadata
         /\ groups' = groups)]_vars

\* C8: a batch that carries an array with a non-positive dimension for a key
\* that has no dataset yet raises nothing, creates no dataset for the key, and
\* writes the other keys of the batch.
C8_SkipIsNonFatal ==
  (/\ last.doc = "event_page"
   /\ last.outcome = "written"
   /\ last.badkey # ""
   /\ last.wasnew)
  => /\ err = NoError
     /\ RawArray(last.uid, last.badkey) = <<>>
     /\ \A k \in stream_metadata[last.uid] \ {last.badkey} :
          /\ Len(RawArray(last.uid, k)) >= last.rows
          /\ SubSeq(RawArray(last.uid, k), Len(RawArray(last.uid, k)) - last.rows + 1,
                    Len(RawArray(last.uid, k)))
             = [i \in 1..last.rows |-> last.first + i - 1]

\* C9: once a write was skipped, the stop document does not fail.
C9_RunContinuesAfterSkip ==
  (last.doc = "stop" /\ skipped # {}) => (err = NoError /\ phase = "stopped")

\* ---------------------------------------------------------------- appends
\* _add_data_to_stream_group called on one dataset with the same rows, once
\* per row and once for all rows.
MaxAppend == 3
RowValues == {1, 2}
InitialDatasets == {<<>>, <<2>>, <<1, 2>>}

RowSeqs == UNION {[1..n -> RowValues] : n \in 0..MaxAppend}

AppendInit ==
  /\ SerializerInit
  /\ EmptyDirectory
  /\ NoMapper
  /\ FileManagerInit
  /\ DefaultOptions
  /\ ap_rows \in RowSeqs
  /\ ap_trail \in BOOLEAN
  /\ ap_init \in InitialDatasets
  /\ ap_one = ap_init
  /\ ap_fed = 0
  /\ ap_one_err = NoError
  /\ ap_bulk = ap_init
  /\ ap_bulk_done = FALSE

\* the next row, as a batch of size 1
AppendOne ==
  /\ ap_fed < Len(ap_rows)
  /\ ap_one_err = NoError
  /\ LET r == AddData(ap_one, [rows |-> <<ap_rows[ap_fed + 1]>>, trailOk |-> ap_trail])
     IN /\ ap_one' = r.ds
        /\ ap_one_err' = r.err
  /\ ap_fed' = ap_fed + 1
  /\ UNCHANGED <<svars, fmvars, xvars, mvars, hvars, ap_rows, ap_trail, ap_init, ap_bulk, ap_bulk_done>>

\* all rows, as one batch
AppendBulk ==
  /\ ~ap_bulk_done
  /\ ap_bulk' = AddData(ap_init, [rows |-> ap_rows, trailOk |-> ap_trail]).ds
  /\ ap_bulk_done' = TRUE
  /\ UNCHANGED <<svars, fmvars, xvars, mvars, hvars, ap_rows, ap_trail, ap_init, ap_one, ap_fed, ap_one_err>>

AppendNext == AppendOne \/ AppendBulk

AppendSpec == AppendInit /\ [][AppendNext]_vars

\* C10: appending n rows to a channel array as n batches of size 1 gives the
\* same final array (existence, length, rows in order) as appending them as
\* one batch of size n, for n >= 0.  (Rows that an existing array refuses
\* raise at the first one-row call; nothing is appended then.)
C10_AppendBySingles ==
  (ap_fed = Len(ap_rows) /\ ap_bulk_done /\ ap_one_err = NoError) => ap_one = ap_bulk

\* C10 witness: two or more rows were appended to an existing array both ways.
C10_Witness ==
  /\ Len(ap_rows) >= 2
  /\ ap_init # <<>>
  /\ ap_fed = Len(ap_rows)
  /\ ap_bulk_done
  /\ ap_one_err = NoError
  /\ ap_one = ap_init \o ap_rows

\* ---------------------------------------------------------------- allocator
\* A FileManager alone: reserve_name, open and close called in any order.
MaxCalls == 4

\* the labels: "a" and "e 0" (cleaned to "e_0")
Labels == {<<"a">>, <<"e", " ", "0">>}

\* the relative paths "a.nxs" and "a_e_0.nxs", and the absolute "/a.nxs"
PlainFile == <<"a">> \o Ext
SuffixedFile == <<"a", "_", "e", "_", "0">> \o Ext
AbsoluteFile == <<"/", "a">> \o Ext
RelativePaths == {PlainFile, SuffixedFile, AbsoluteFile}

\* FileManager.__init__ in either mode, on a directory that is empty or holds
\* "a.nxs" from an earlier run
AllocatorInit ==
  /\ SerializerInit
  /\ EmptyDirectory
  /\ NoMapper
  /\ NoAppend
  /\ DefaultOptions
  /\ fm_new_file_each \in BOOLEAN
  /\ fm_storage \in {{}, {Resolve(PlainFile)}}
  /\ fm_reserved = {}
  /\ fm_artifacts = <<>>
  /\ fm_files = <<>>
  /\ fm_handles = <<>>
  /\ fm_log = <<>>
  /\ fm_last = NoCall
  /\ fm_calls = 0

\* FileManager.reserve_name
FileManagerReserve(entry_name, relative_file_path) ==
  /\ fm_calls' = fm_calls + 1
  /\ UNCHANGED <<svars, apvars, mvars, hvars, xvars, fm_new_file_each, fm_files, fm_handles,
                 fm_storage>>
  /\ IF IsAbsolute(relative_file_path)
     THEN /\ fm_last' = Call("reserve", "SuitcaseUtilsValueError", relative_file_path)
          /\ UNCHANGED <<fm_reserved, fm_artifacts, fm_log>>
     ELSE /\ Reserved(entry_name, relative_file_path)
          /\ fm_last' = Call("reserve", "returned", relative_file_path)

\* FileManager.open
FileManagerOpen(relative_file_path, entry_name, created) ==
  /\ fm_calls' = fm_calls + 1
  /\ FmOpen(relative_file_path, entry_name, created)
  /\ UNCHANGED <<svars, apvars, mvars, hvars, xvars>>

\* FileManager.close
FileManagerClose ==
  /\ fm_calls' = fm_calls + 1
  /\ FmClose
  /\ UNCHANGED <<svars, apvars, mvars, hvars, xvars>>

AllocatorNext ==
  \/ /\ fm_calls < MaxCalls
     /\ \E l \in Labels, r \in RelativePaths : FileManagerReserve(l, r)
  \/ /\ fm_calls < MaxCalls
     /\ \E l \in Labels, r \in RelativePaths, created \in BOOLEAN :
          FileManagerOpen(r, l, created)
  \/ /\ fm_calls < MaxCalls
     /\ FileManagerClose

AllocatorSpec == AllocatorInit /\ [][AllocatorNext]_vars

\* the paths that reserve_name returned, in call order
Returned == [i \in 1..Len(fm_log) |-> fm_log[i].path.name]

\* C11: in the mode that makes a new file for each entry, every path that
\* reserve_name returns differs from every path an earlier call returned.
C11_CollisionFree ==
  fm_new_file_each =>
    \A i, j \in 1..Len(fm_log) : i < j => Returned[i] # Returned[j]

\* C12: reserve_name (called directly or by open) with a relative path that
\* is absolute raises the usage error and leaves the reserved names, the
\* artifacts and the handles as they were.
C12_AbsoluteIsRefused ==
  [][(fm_calls' = fm_calls + 1 /\ StartsWith(fm_last'.arg, <<"/">>))
     => (/\ fm_last'.outcome = "SuitcaseUtilsValueError"
         /\ fm_reserved' = fm_reserved
         /\ fm_artifacts' = fm_artifacts
         /\ fm_files' = fm_files
         /\ fm_handles' = fm_handles)]_vars

\* C12 witness: an absolute path was refused by a manager that holds
\* reserved names and an open handle.
C12_Witness ==
  /\ fm_last.outcome = "SuitcaseUtilsValueError"
  /\ fm_last.arg = AbsoluteFile
  /\ fm_reserved # {}
  /\ \E h \in DOMAIN fm_handles : fm_handles[h] = "open"

AllClosed == \A h \in DOMAIN fm_handles : fm_handles[h] = "closed"

\* C13: when close has returned, every handle that open ever returned is
\* closed, whatever calls succeeded or failed before; a close that follows a
\* close returns too and leaves every handle closed.
C13_CloseReleasesAll ==
  /\ [](fm_last.op = "close" => AllClosed)
  /\ [][(fm_last.op = "close" /\ fm_last'.op = "close")
        => (fm_last'.outcome = "returned" /\ fm_handles' = fm_handles)]_vars

\* C13 witness: close was called twice in a row on a manager on which two
\* calls had reserved a name and one of them had opened a file.
C13_Witness ==
  /\ fm_last.op = "close"
  /\ fm_last.prev = "close"
  /\ Len(fm_handles) = 1
  /\ Len(fm_log) = 2
  /\ fm_calls = 4
  /\ AllClosed

\* ---------------------------------------------------------------- export
\* export(gen, directory, plot_data=..., do_nexus_output=...): a Serializer
\* in a with-block, fed the documents of gen; the block is left when gen ends
\* or a handler raises.
ExportDocs == 3

\* the attributes a plot object may carry
PlotShapes == {{"x_name", "y_names"}, {"x_name", "y_name", "z_name"}, {"x_name"},
               {"y_names"}}
PlotChoices ==
  {<<>>} \cup {<<[stream_name |-> "primary", has |-> h]>> : h \in PlotShapes}

ExportInit ==
  /\ SerializerInit
  /\ EmptyDirectory
  /\ NoMapper
  /\ NoAppend
  /\ FileManagerInit
  /\ plot_data \in PlotChoices
  /\ do_nexus_output \in BOOLEAN
  /\ group_attrs = <<>>
  /\ nexus_made = FALSE
  /\ stop_trace = <<>>
  /\ exited = FALSE

ExportNext ==
  \/ /\ ~exited
     /\ \E t \in StartTimes : Start(t, {"temp"})
  \/ /\ ~exited
     /\ \E t \in StartTimes : StartFails(t)
  \/ /\ ~exited
     /\ ndocs < ExportDocs
     /\ \E name \in {"primary", "aux", LiveName} :
          Descriptor(Uid(ndescriptors + 1), name, {"temp"})
  \/ /\ ~exited
     /\ ndocs < ExportDocs
     /\ \E uid \in DOMAIN stream_groups : EventPageLive(uid, LiveFields)
  \/ /\ ~exited
     /\ ndocs < ExportDocs
     /\ \E uid \in DOMAIN stream_metadata :
          \E kinds \in KindChoices(stream_metadata[uid], 1) :
            EventPage(uid, 1, InOrder(stream_metadata[uid]), kinds)
  \/ /\ ~exited
     /\ Stop
  \/ Exit

\* The with-block runs on: the loop takes the next document while gen has
\* one and no handler has raised, and __exit__ runs when it has none left.
ExportSpec == ExportInit /\ [][ExportNext]_vars /\ WF_vars(ExportNext)

\* C14: every run of export comes to the point where the with-block is left
\* and every handle that was opened is closed, and stays there: after the
\* stop document, when gen ends before it, and when a handler raises.
C14_ReleasedOnEveryExit == <>[](exited /\ AllClosed)

\* C14 witness: a data batch raised in mid-run, the with-block was left and
\* the container that start had opened is closed.
C14_Witness ==
  /\ exited
  /\ phase = "failed"
  /\ last.doc = "event_page"
  /\ Len(fm_handles) = 1
  /\ AllClosed

\* ---------------------------------------------------------------- routing
\* C15: a data batch on an identifier that has no stream group (never
\* declared, or declared by a descriptor that was ignored) raises nothing and
\* leaves the ledger, the current-stream marker, every array of every stream
\* group and the map from channel to contributing streams as they were.
C15_UnknownIsDiscarded ==
  [][(/\ ndocs' = ndocs + 1
      /\ last'.doc = "event_page"
      /\ last'.uid \notin DOMAIN stream_groups)
     => (/\ err' = err
         /\ phase' = phase
         /\ stream_counter' = stream_counter
         /\ current_stream' = current_stream
         /\ time' = time
         /\ elapsed' = elapsed
         /\ data' = data
         /\ channels_in_streams' = channels_in_streams)]_vars

\* C15 witness: a batch on the identifier of the first descriptor, which was
\* ignored, was discarded in a run whose ledger has entries.
C15_Witness ==
  /\ last.doc = "event_page"
  /\ last.outcome = "discarded"
  /\ last.uid = Uid(1)
  /\ ndescriptors >= 2
  /\ stream_counter # <<>>
  /\ err = NoError

\* the identifiers marked as the live-metadata stream
LiveUids == {uid \in DOMAIN stream_groups : stream_groups[uid] = LiveName}

\* C16: the live-metadata stream never gets a stream group, and a data batch
\* on its identifier leaves the ledger, the current-stream marker and every
\* time, ElapsedTime and channel array as they were.
C16_LiveIsRedirected ==
  /\ [](LiveName \notin groups /\ LiveUids \cap DOMAIN stream_metadata = {})
  /\ [][(/\ ndocs' = ndocs + 1
         /\ last'.doc = "event_page"
         /\ last'.uid \in LiveUids)
        => (/\ stream_counter' = stream_counter
            /\ current_stream' = current_stream
            /\ time' = time
            /\ elapsed' = elapsed
            /\ data' = data)]_vars

\* C16 witness: two batches of one ordinary stream with a live-metadata batch
\* between them share one entry of the ledger, and the field of the
\* live-metadata batch is under measurement_details.
C16_Witness ==
  /\ last.doc = "event_page"
  /\ last.outcome = "written"
  /\ last.prev = "redirected"
  /\ LiveFields \subseteq meas_fields
  /\ stream_counter = << <<last.uid, 2>> >>

\* ---------------------------------------------------------------- stop
IsPrefix(s, t) == Len(s) <= Len(t) /\ SubSeq(t, 1, Len(s)) = s

\* C17: the stop handler stitches first, then exports the plot annotations,
\* then (when enabled) makes the NeXus projection, and closes the container
\* last: the steps it ran are always a beginning of that list, all of it when
\* stop returned, and the container is closed by stop only as its last step.
C17_StopOrder ==
  LET order == <<"stitch", "export">>
               \o (IF do_nexus_output THEN <<"project">> ELSE <<>>)
               \o <<"close">>
  IN /\ IsPrefix(stop_trace, order)
     /\ (phase = "stopped" <=> stop_trace = order)
     /\ (nexus_made => (do_nexus_output /\ phase = "stopped"))
     /\ ((~exited /\ fm_handles # <<>> /\ AllClosed) => phase = "stopped")
     /\ (phase = "stopped" => (fm_handles # <<>> /\ AllClosed))

\* C17 witness: stop returned in a run with a plot and the projection
\* enabled: the views, the plot annotations and the NeXus node were made and
\* the container is closed.
C17_Witness ==
  /\ phase = "stopped"
  /\ ~exited
  /\ do_nexus_output
  /\ nexus_made
  /\ stitched # {}
  /\ "primary" \in DOMAIN group_attrs
  /\ stop_trace = <<"stitch", "export", "project", "close">>
  /\ AllClosed

NonDecreasing(s) == \A i \in 1..(Len(s) - 1) : s[i] <= s[i + 1]

\* C18: the timestamps of the batches are non-decreasing in arrival order
\* (the clock of the model only advances), and the timestamp view that stop
\* made for a linked channel reads non-decreasing over its whole length.
C18_TimeOrdered ==
  phase = "stopped" => \A ch \in stitched : NonDecreasing(ViewTimes(ch))

\* C19: once the stitching is through, the stop handler raises nothing and
\* closes the container, whatever attributes the plot objects lack.
C19_ExportersAreBestEffort ==
  (last.doc = "stop" /\ "export" \in Range(stop_trace))
  => (/\ err = NoError
      /\ phase = "stopped"
      /\ "close" \in Range(stop_trace))

\* ---------------------------------------------------------------- artifacts
\* the paths reserve_name returned for a label, in call order
ReturnedFor(label) ==
  LET calls == SelectSeq(fm_log, LAMBDA c : c.label = label)
  IN [i \in 1..Len(calls) |-> calls[i].path]

\* C20: artifacts maps every label for which reserve_name has returned a path
\* to the list of the paths it returned for that label, in call order; no
\* other label is a key, and the lists hold as many paths as calls returned.
C20_ArtifactsInvariant ==
  /\ DOMAIN fm_artifacts = {fm_log[i].label : i \in 1..Len(fm_log)}
  /\ \A label \in DOMAIN fm_artifacts : fm_artifacts[label] = ReturnedFor(label)
  /\ \A label \in Labels \ DOMAIN fm_artifacts : ReturnedFor(label) = <<>>
  /\ SumSeq([i \in 1..Len(fm_log) |->
               IF \E j \in 1..(i - 1) : fm_log[j].label = fm_log[i].label THEN 0
               ELSE Len(fm_artifacts[fm_log[i].label])]) = Len(fm_log)

\* C20 witness: four calls, one of which reserved nothing: one label has two
\* paths and the other label has one.
C20_Witness ==
  /\ fm_calls = 4
  /\ Len(fm_log) = 3
  /\ fm_last.op = "reserve"
  /\ fm_last.outcome = "returned"
  /\ DOMAIN fm_artifacts = Labels
  /\ \E label \in Labels : Len(fm_artifacts[label]) = 2

\* ---------------------------------------------------------------- contributors
\* the list _channels_in_streams holds for a channel (empty when it has none)
ContributorsOf(ch) ==
  IF CisHas(channels_in_streams, ch)
  THEN channels_in_streams[CisGet(channels_in_streams, ch)].streams
  ELSE <<>>

\* C22: for every channel, the list of contributing stream identifiers holds
\* every stream that has written rows to the channel, each once; a second
\* stream that writes to a known channel is in the list too.  (The order of
\* first contribution is not stated here: the list already misses writers.)
C22_ContributorsListed ==
  \A ch \in Channels :
    /\ WritersOf(ch) \subseteq Range(ContributorsOf(ch))
    /\ \A i, j \in 1..Len(ContributorsOf(ch)) :
         i # j => ContributorsOf(ch)[i] # ContributorsOf(ch)[j]

\* ---------------------------------------------------------------- replay
\* the write cursor n after the loop of lines 830-843 for a channel
FinalCursor(ch) ==
  LET empty == [slots |-> Repeat(Unmapped, TotalLength(ContributorsOf(ch))), ok |-> TRUE]
  IN Replay(1, ch, ContributorsOf(ch), 0, <<>>, empty, empty).n

\* C25: at stop, for every stitched channel, the replay of the ledger assigns
\* every slot of the value view and of the timestamp view: the final write
\* cursor is the total length the views were made with, and no slot is left
\* unmapped (the cursor only advances, so no slot is assigned twice).
C25_ReplayFillsViews ==
  phase = "stopped" =>
    \A ch \in stitched :
      /\ FinalCursor(ch) = TotalLength(ContributorsOf(ch))
      /\ Len(value_log[ch]) = TotalLength(ContributorsOf(ch))
      /\ Len(timestamps[ch]) = TotalLength(ContributorsOf(ch))
      /\ \A i \in 1..Len(value_log[ch]) : value_log[ch][i] # Unmapped
      /\ \A i \in 1..Len(timestamps[ch]) : timestamps[ch][i] # Unmapped

\* ---------------------------------------------------------------- ledger and time
\* the sum of the counts of the ledger entries whose stream identifier is
\* mapped to the group g
LedgerCountOf(g) ==
  SumSeq([i \in 1..Len(stream_counter) |->
            IF /\ stream_counter[i][1] \in DOMAIN stream_groups
               /\ stream_groups[stream_counter[i][1]] = g
            THEN stream_counter[i][2] ELSE 0])

\* C26: in every state, the time array of every stream group is as long as
\* the counts of the ledger entries of the identifiers mapped to that group
\* add up to.
C26_TimeMatchesLedger ==
  \A g \in GroupIds : Len(time[g]) = LedgerCountOf(g)

\* C26 witness: two identifiers are mapped to one group, both have entries
\* in the ledger, one entry counts more than one batch.
C26_Witness ==
  \E i, j \in 1..Len(stream_counter) :
    /\ stream_counter[i][1] # stream_counter[j][1]
    /\ stream_groups[stream_counter[i][1]] = stream_groups[stream_counter[j][1]]
    /\ stream_counter[i][2] >= 2
    /\ Len(time[stream_groups[stream_counter[i][1]]]) = 3

\* ---------------------------------------------------------------- rows and time
\* the rows the replay reads for a stream: the counts of its ledger entries
\* (the per-stream cursor of lines 833-843 ends there)
RowsRead(stream) ==
  SumSeq([i \in 1..Len(stream_counter) |->
            IF stream_counter[i][1] = stream THEN stream_counter[i][2] ELSE 0])

\* C27: in every state, every channel array of a stream group has as many
\* rows as the time array of the group, for batches of any row count and
\* after a skipped write; so every segment the replay reads from the array
\* of a linked channel lies within the array.
C27_RowsMatchTime ==
  /\ \A g \in GroupIds : \A ch \in Channels :
       data[g][ch] # <<>> => Len(data[g][ch]) = Len(time[g])
  /\ \A ch \in channel_links :
       \A stream \in Range(ContributorsOf(ch)) :
         RowsRead(stream) <= Len(data[stream_groups[stream]][ch])

\* ---------------------------------------------------------------- alignment
\* C28: the two views stop makes for a channel are aligned: every slot of the
\* value view and the same slot of the timestamp view refer to the same
\* stream and the same row index, and so every stitched value is read next to
\* the timestamp of the batch row that delivered it (a row of the model
\* carries its own timestamp as payload).
C28_ViewsAligned ==
  phase = "stopped" =>
    \A ch \in stitched :
      /\ value_log[ch] = timestamps[ch]
      /\ ViewValues(ch) = ViewTimes(ch)

\* ---------------------------------------------------------------- elapsed time
\* C29: in every state, the time and ElapsedTime arrays of a stream group
\* both do not exist or both exist with the same length, and every entry of
\* ElapsedTime is the entry of time at the same index minus the start time of
\* the run.
C29_ElapsedIsTimeSinceStart ==
  \A g \in GroupIds :
    /\ Len(elapsed[g]) = Len(time[g])
    /\ \A i \in 1..Len(time[g]) : elapsed[g][i] = time[g][i] - start_time

\* C29 witness: a group holds three timestamps of a run that started at 100,
\* the last of them later than the start.
C29_Witness ==
  /\ start_time = 100
  /\ \E g \in GroupIds :
       /\ Len(time[g]) = 3
       /\ Len(elapsed[g]) = 3
       /\ elapsed[g][3] > 0

\* ---------------------------------------------------------------- mapper
\* recourse_entry_dict called on an empty group with a dict of one item.
MaxItems == 3

\* the elements of a list: a dict, a number, a string, None
Elements == {Dict(<< <<"a", Number("1")>> >>), Number("2"), Text("x"), NoValue}
Lists == UNION {[1..n -> Elements] : n \in 0..MaxItems}

\* {"k": [...]}, and a dict value, a dict under the key "start", None, a number
MapperInputs ==
  {Dict(<< <<"k", List(items)>> >>) : items \in Lists}
    \cup {Dict(<< <<"k", Dict(<< <<"a", Number("1")>> >>)>> >>),
          Dict(<< <<"start", Dict(<< <<"a", Number("1")>> >>)>> >>),
          Dict(<< <<"k", NoValue>> >>),
          Dict(<< <<"k", Number("1")>> >>)}

MapperInit ==
  /\ SerializerInit
  /\ EmptyDirectory
  /\ NoAppend
  /\ FileManagerInit
  /\ DefaultOptions
  /\ mp_metadata \in MapperInputs
  /\ mp_entry = EmptyNode
  /\ mp_err = NoError
  /\ mp_done = FALSE

\* recourse_entry_dict(entry, metadata) on a group without members
Project ==
  /\ ~mp_done
  /\ \E r \in {recourse_entry_dict([node |-> EmptyNode, err |-> NoError], mp_metadata)} :
       /\ mp_entry' = r.node
       /\ mp_err' = r.err
  /\ mp_done' = TRUE
  /\ UNCHANGED <<svars, apvars, fmvars, xvars, hvars, mp_metadata>>

MapperNext == Project

MapperSpec == MapperInit /\ [][MapperNext]_vars

\* the one key of the metadata and its value
TheKey == mp_metadata.fields[1][1]
TheValue == mp_metadata.fields[1][2]

\* C23: for a list value, the mapper makes one indexed child group per
\* element and no leaf when every element is a dict; when some element is not
\* a dict, at any position, it makes one array leaf under the key and no
\* indexed child group at all.
C23_SequenceMapping ==
  (mp_done /\ TheValue.t = "list") =>
    LET n == Len(TheValue.items)
        indexed == {IndexedName(TheKey, i) : i \in 0..(n - 1)}
    IN /\ mp_err = NoError
       /\ IF \A i \in 1..n : TheValue.items[i].t = "dict"
          THEN /\ DOMAIN mp_entry.members = indexed
               /\ \A name \in indexed : mp_entry.members[name].kind = "group"
          ELSE /\ DOMAIN mp_entry.members = {TheKey}
               /\ mp_entry.members[TheKey].kind = "dataset"

\* ---------------------------------------------------------------- container
\* Runs written one after another on one directory: every run has its own
\* Serializer (and so its own FileManager), the containers stay on storage.
MaxRuns == 3

\* the session names of the start documents: absent, two short ones, one
\* that ends like a suffix of the deduplication
Sessions == {<<>>, <<"a", "b">>, <<"c", "d">>, <<"e", "_", "0">>}

\* Serializer.__init__ and the FileManager.__init__ it calls, for the next
\* run on the directory; what earlier runs wrote stays on storage.
NewSerializer(new_file_each, nexus, session) ==
  /\ exited
  /\ runs < MaxRuns
  /\ runs' = runs + 1
  /\ start_doc' = [session_name |-> session, user |-> Dict(<<>>), sample |-> Dict(<<>>)]
  /\ h5_output_file' = <<>>
  /\ run_entry_name' = <<>>
  /\ entry' = EmptyNode
  /\ fm_new_file_each' = new_file_each
  /\ fm_reserved' = {}
  /\ fm_artifacts' = <<>>
  /\ fm_files' = <<>>
  /\ fm_handles' = <<>>
  /\ fm_log' = <<>>
  /\ fm_last' = NoCall
  /\ do_nexus_output' = nexus
  /\ group_attrs' = <<>>
  /\ nexus_made' = FALSE
  /\ stop_trace' = <<>>
  /\ exited' = FALSE
  /\ phase' = "new"
  /\ err' = NoError
  /\ start_time' = 0
  /\ channel_links' = {}
  /\ stream_groups' = <<>>
  /\ stream_names' = <<>>
  /\ stream_metadata' = <<>>
  /\ stream_counter' = <<>>
  /\ current_stream' = NoStream
  /\ channels_in_streams' = <<>>
  /\ groups' = {}
  /\ time' = [g \in GroupIds |-> <<>>]
  /\ elapsed' = [g \in GroupIds |-> <<>>]
  /\ data' = [g \in GroupIds |-> [c \in Channels |-> <<>>]]
  /\ meas_fields' = {}
  /\ value_log' = [c \in Channels |-> Unmapped]
  /\ timestamps' = [c \in Channels |-> Unmapped]
  /\ stitched' = {}
  /\ now' = 0
  /\ ndocs' = 0
  /\ ndescriptors' = 0
  /\ rows_routed' = 0
  /\ skipped' = {}
  /\ writers' = {}
  /\ last' = [doc |-> "none", outcome |-> "none", prev |-> "none", name |-> "",
              uid |-> NoStream, badkey |-> "", badkind |-> "ok", wasnew |-> FALSE,
              first |-> 0, rows |-> 0]
  /\ UNCHANGED <<apvars, mvars, h5_tree, fm_storage, fm_calls, plot_data>>

ContainerInit ==
  /\ SerializerInit
  /\ NoAppend
  /\ NoMapper
  /\ fm_new_file_each \in BOOLEAN
  /\ fm_reserved = {}
  /\ fm_artifacts = <<>>
  /\ fm_files = <<>>
  /\ fm_handles = <<>>
  /\ fm_storage = {}
  /\ fm_log = <<>>
  /\ fm_last = NoCall
  /\ fm_calls = 0
  /\ plot_data = <<>>
  /\ do_nexus_output \in BOOLEAN
  /\ group_attrs = <<>>
  /\ nexus_made = FALSE
  /\ stop_trace = <<>>
  /\ exited = FALSE
  /\ start_doc \in {[session_name |-> s, user |-> Dict(<<>>), sample |-> Dict(<<>>)] :
                      s \in Sessions}
  /\ h5_tree = <<>>
  /\ runs = 1
  /\ NoEntry

ContainerNext ==
  \/ /\ ~exited
     /\ \E t \in StartTimes : Start(t, {"temp"})
  \/ /\ ~exited
     /\ \E t \in StartTimes : StartFails(t)
  \/ /\ ~exited
     /\ Stop
  \/ /\ phase # "new"
     /\ Exit
  \/ \E new_file_each \in BOOLEAN, nexus \in BOOLEAN, session \in Sessions :
       NewSerializer(new_file_each, nexus, session)

ContainerSpec == ContainerInit /\ [][ContainerNext]_vars

\* the step of Serializer.start that created the entry of a run
EntryCreated == phase = "new" /\ phase' # "new"

\* C24: the step of start creates the entry under a name that no top-level
\* node of the container it opened had before the step, whatever earlier
\* runs put there; the name is "NANO_" and the session name (the default
\* when it is absent or empty) when that is free, and begins with "NANO_"
\* otherwise; the loop that finds it ends after at most one round per node
\* that was there.
C24_EntryNameIsFresh ==
  [][EntryCreated =>
       LET before == GetOr(h5_tree, h5_output_file', {})
           free == Nano \o EntryLabel(start_doc)
       IN /\ run_entry_name' \notin before
          /\ GetOr(h5_tree', h5_output_file', {}) = before \cup {run_entry_name'}
          /\ StartsWith(run_entry_name', Nano)
          /\ (free \notin before => run_entry_name' = free)
          /\ DedupEntry(free, 1, before).i <= Cardinality(before) + 1]_vars

\* C24 witness: the third run without a session name written into one
\* container: its entry got the suffix of the second round of the loop.
C24_Witness ==
  /\ runs = 3
  /\ phase = "active"
  /\ run_entry_name = Nano \o DefaultEntry \o Underscored(2)
  /\ Nano \o DefaultEntry \in TopNames
  /\ Nano \o DefaultEntry \o Underscored(1) \in TopNames

\* the step of Serializer.stop that came to the NeXus projection
Projecting == phase = "active" /\ "project" \in Range(stop_trace')

\* "NeXus_" and the entry name without the five characters of "NANO_"
WithoutNano(name) ==
  <<"N", "e", "X", "u", "s", "_">>
    \o (IF StartsWith(name, Nano) THEN SubSeq(name, Len(Nano) + 1, Len(name)) ELSE name)

\* C30: a stop that comes to the projection raises nothing and leaves in
\* the container a node named "NeXus_" and the entry name without its
\* prefix "NANO_", whatever projections earlier runs left there.
C30_ProjectionNamed ==
  [][Projecting =>
       /\ err' = NoError
       /\ nexus_made'
       /\ WithoutNano(run_entry_name) \in GetOr(h5_tree', h5_output_file, {})]_vars

\* ---------------------------------------------------------------- identity
\* Serializer.start on start documents whose user and sample records carry
\* any of the fields the code looks for, and one it does not.
UserFields ==
  << <<"user_id", Text("u1")>>, <<"identifier", Text("id7")>>,
     <<"ELN-service", Text("eln")>>, <<"name", Text("n")>> >>
SampleFields ==
  << <<"identifier", Text("s3")>>, <<"full_identifier", Text("lab/s3")>>,
     <<"ELN-service", Text("eln")>>, <<"name", Text("n")>> >>

\* the records made of some of the fields, in the order of the list
Records(fields) ==
  {Dict(SelectSeq(fields, LAMBDA f : f[1] \in keys)) :
     keys \in SUBSET {fields[i][1] : i \in 1..Len(fields)}}

IdentityInit ==
  /\ SerializerInit
  /\ NoAppend
  /\ NoMapper
  /\ FileManagerInit
  /\ DefaultOptions
  /\ start_doc \in {[session_name |-> <<>>, user |-> u, sample |-> s] :
                      u \in Records(UserFields), s \in Records(SampleFields)}
  /\ h5_tree = <<>>
  /\ runs = 1
  /\ NoEntry

IdentityNext == \E t \in StartTimes, links \in LinkChoices : Start(t, links)

IdentitySpec == IdentityInit /\ [][IdentityNext]_vars

\* the node that start made under the given name of the entry
NodeOf(name) == entry.members[name].node

\* The node has an identifier child that holds the field id_key of the
\* record and, as its service, the record's "ELN-service" or "unknown".
HasIdentifierChild(node, record, id_key) ==
  /\ "identifier" \in DOMAIN node.members
  /\ node.members["identifier"].kind = "group"
  /\ LET id == node.members["identifier"].node
     IN /\ {"identifier", "service"} \subseteq DOMAIN id.members
        /\ id.members["identifier"] = Dataset(ValueOf(record, id_key))
        /\ id.members["service"] =
             Dataset(IF HasKey(record, "ELN-service")
                     THEN ValueOf(record, "ELN-service")
                     ELSE Text("unknown"))

====
